---- MODULE Spec2Model ----
(***************************************************************************)
(* A model of the scripts of the repository.  Post-processing: the         *)
(* seconds -> frames conversion, the metadata.json updaters of svo_export, *)
(* the interval labelling of body_tracking.json and its flattening into    *)
(* rows.  Capture: the main loop and the SIGINT handler of the recording   *)
(* scripts, and the post-processing of the file they dump.                 *)
(*                                                                         *)
(* Numbers.  Seconds and frame rates are Python floats.  They are modelled *)
(* as exact fixed-point numbers: the integer n stands for n / Den.  The    *)
(* product of two of them has the denominator Den * Den.  Frame numbers    *)
(* are Python ints and are modelled as integers.                           *)
(*                                                                         *)
(* Dictionaries.  metadata.json is a function from its keys to its values. *)
(* body_tracking.json, whose order matters, is a sequence of <<key, value>>*)
(* pairs at each of its three levels (frames, bodies, fields).             *)
(***************************************************************************)
EXTENDS Integers, Sequences, FiniteSets, TLC

VARIABLES
    pc,                  \* where the script or function under study stands
    folder,              \* the names of the files that exist in the folder
    metadata_json,       \* the contents of metadata.json (a dictionary)
    body_tracking_json,  \* the contents of body_tracking.json
    highlights_csv,      \* the rows of reduct-highlights-export.csv
    args,                \* what the last run or call was given (its inputs)
    ret,                 \* what the last call returned
    log,                 \* the files written and messages printed by the last run
    experiment_folder,   \* capture scripts: the global experiment_folder
    zcameras,            \* the global zcameras: the serials of the cameras appended
    body_json,           \* the global body_json
    audio_process,       \* recording.py: the global audio_process
    calibration_json,    \* the contents of calibration.json
    senders,             \* main's senders: the serials of the cameras it opened
    cameras,             \* the state of each camera object of the SDK
    fusion,              \* the fusion object: the results of its successful process() calls
    bodies,              \* the sl.Bodies object main retrieves into
    iteration,           \* the iteration of main's while loop and the cameras that grabbed in it
    loop_index,          \* the index of main's current for loop
    handler,             \* where the SIGINT handler stands
    exit_status          \* the status the process exited with, if it has

captureVars == <<experiment_folder, zcameras, body_json, audio_process, calibration_json,
                 senders, cameras, fusion, bodies, iteration, loop_index, handler, exit_status>>

vars == <<pc, folder, metadata_json, body_tracking_json, highlights_csv, args, ret, log,
          experiment_folder, zcameras, body_json, audio_process, calibration_json,
          senders, cameras, fusion, bodies, iteration, loop_index, handler, exit_status>>

----------------------------------------------------------------------------
(* Bounds *)

Den == 2          \* fixed-point precision: n stands for n / Den
MaxLen == 2       \* longest list of seconds drawn
MaxSec == 3       \* largest second drawn, in units of 1 / Den
MaxRate == 3      \* largest frame rate drawn, in units of 1 / Den

----------------------------------------------------------------------------
(* Values shared by the scripts *)

\* An optional value: None, or Some(x).  Python's None is kept apart from
\* the numbers this way, whatever the number is.
None == <<>>
Some(x) == <<x>>
Val(o) == o[1]

Nothing == <<>>
EmptyDict == <<>>

\* The post-processing scripts and the functions called on their own have no
\* capture script running beside them.
NoCapture ==
    /\ experiment_folder = ""
    /\ zcameras = <<>>
    /\ body_json = <<>>
    /\ audio_process = None
    /\ calibration_json = EmptyDict
    /\ senders = <<>>
    /\ cameras = <<>>
    /\ fusion = <<>>
    /\ bodies = <<>>
    /\ iteration = 0
    /\ loop_index = 0
    /\ handler = [at |-> "idle", cam |-> 0]
    /\ exit_status = None

SeqsUpTo(S, n) == UNION {[1..k -> S] : k \in 0..n}

\* Python's int() of a float num / den (den > 0): truncation towards zero.
PyIntRound(num, den) == (2 * num + den) \div (2 * den)
PyInt(num, den) == IF num >= 0 THEN num \div den ELSE -((-num) \div den)

\* dict.get(key, default), and dict.get(key), which is None for a missing key
Get(d, k, default) == IF k \in DOMAIN d THEN d[k] ELSE default
GetOpt(d, k) == IF k \in DOMAIN d THEN Some(d[k]) ELSE None

\* d[key] = value
Put(d, k, v) == [x \in (DOMAIN d) \cup {k} |-> IF x = k THEN v ELSE d[x]]

----------------------------------------------------------------------------
(* seconds_to_frames: the three working copies *)

\* svo_export/update_metadata.py: a loop appending int(sec * rate)
RECURSIVE seconds_to_frames_loop(_, _, _)
seconds_to_frames_loop(seconds, average_frame_rate, frames) ==
    IF seconds = <<>> THEN frames
    ELSE seconds_to_frames_loop(Tail(seconds), average_frame_rate,
             Append(frames, PyInt(Head(seconds) * average_frame_rate, Den * Den)))

seconds_to_frames_um(seconds, average_frame_rate) ==
    seconds_to_frames_loop(seconds, average_frame_rate, <<>>)

\* svo_export/update_json.py: a list comprehension
seconds_to_frames_uj(seconds, average_frame_rate) ==
    [i \in 1..Len(seconds) |-> PyInt(seconds[i] * average_frame_rate, Den * Den)]

\* Data Preparation/data_preparation.py: a list comprehension
seconds_to_frames_DP(seconds, average_frame_rate) ==
    [i \in 1..Len(seconds) |-> PyInt(seconds[i] * average_frame_rate, Den * Den)]

----------------------------------------------------------------------------
(* Specification of the seconds_to_frames copies as pure functions *)

SecondsDrawn == (-MaxSec)..MaxSec
RatesDrawn == 1..MaxRate

InitS2F ==
    /\ pc = "call"
    /\ folder = {}
    /\ metadata_json = EmptyDict
    /\ body_tracking_json = <<>>
    /\ highlights_csv = <<>>
    /\ \E s \in SeqsUpTo(SecondsDrawn, MaxLen), r \in RatesDrawn :
           args = [seconds |-> s, average_frame_rate |-> r]
    /\ ret = Nothing
    /\ log = <<>>
    /\ NoCapture

CallS2F_um ==
    /\ pc = "call"
    /\ pc' = "update_metadata"
    /\ ret' = seconds_to_frames_um(args.seconds, args.average_frame_rate)
    /\ UNCHANGED <<folder, metadata_json, body_tracking_json, highlights_csv, args, log>>
    /\ UNCHANGED captureVars

CallS2F_uj ==
    /\ pc = "call"
    /\ pc' = "update_json"
    /\ ret' = seconds_to_frames_uj(args.seconds, args.average_frame_rate)
    /\ UNCHANGED <<folder, metadata_json, body_tracking_json, highlights_csv, args, log>>
    /\ UNCHANGED captureVars

CallS2F_DP ==
    /\ pc = "call"
    /\ pc' = "Data Preparation"
    /\ ret' = seconds_to_frames_DP(args.seconds, args.average_frame_rate)
    /\ UNCHANGED <<folder, metadata_json, body_tracking_json, highlights_csv, args, log>>
    /\ UNCHANGED captureVars

NextS2F == CallS2F_um \/ CallS2F_uj \/ CallS2F_DP

SpecS2F == InitS2F /\ [][NextS2F]_vars

\* n is x = num / den truncated to an integer: the integer part of x, the
\* one between 0 and x that is less than 1 away from x.
IsTruncation(n, num, den) ==
    /\ num >= 0 => (n * den <= num /\ num < (n + 1) * den)
    /\ num < 0 => (n * den >= num /\ num > (n - 1) * den)

\* C5: every copy of seconds_to_frames returns a list as long as its input
\* whose i-th element is seconds[i] * average_frame_rate truncated to an
\* integer; for non-negative seconds the result is non-decreasing where the
\* input is, and the three copies return the same list.
C5_SecondsToFrames ==
    pc # "call" =>
        /\ Len(ret) = Len(args.seconds)
        /\ \A i \in 1..Len(args.seconds) :
               IsTruncation(ret[i], args.seconds[i] * args.average_frame_rate, Den * Den)
        /\ \A i \in 1..Len(args.seconds), j \in 1..Len(args.seconds) :
               (i < j /\ 0 <= args.seconds[i] /\ args.seconds[i] <= args.seconds[j])
                   => ret[i] <= ret[j]
        /\ ret = seconds_to_frames_um(args.seconds, args.average_frame_rate)
        /\ ret = seconds_to_frames_uj(args.seconds, args.average_frame_rate)
        /\ ret = seconds_to_frames_DP(args.seconds, args.average_frame_rate)

\* A call on two increasing positive seconds whose products with the rate
\* are not whole numbers, so that the truncation and the order both matter.
C5_Witness ==
    /\ pc = "update_metadata"
    /\ Len(args.seconds) = 2
    /\ args.seconds[1] > 0
    /\ args.seconds[2] > args.seconds[1]
    /\ (args.seconds[2] * args.average_frame_rate) % (Den * Den) # 0
    /\ (args.seconds[1] * args.average_frame_rate) % (Den * Den) # 0
    /\ ret[1] <= ret[2]

----------------------------------------------------------------------------
(* svo_export/update_metadata.py *)

MaxFrame == 1     \* largest frame number drawn for a 'frames' list already in metadata.json

\* The dictionaries drawn for metadata.json: each key is absent or holds one
\* of the values given for it.
MetadataDrawn(rates, seconds, frames, errors) ==
    { [k \in ks |-> CASE k = "average_frame_rate" -> r
                     [] k = "seconds" -> s
                     [] k = "frames" -> f
                     [] OTHER -> e] :
        ks \in SUBSET {"average_frame_rate", "seconds", "frames", "body_tracking_errors"},
        r \in rates, s \in seconds, f \in frames, e \in errors }

\* get_average_frame_rate_from_metadata: (None, None) without a rate
get_average_frame_rate_from_metadata_default(metadata) ==
    << Some(Get(metadata, "average_frame_rate", Den)), Some(metadata) >>
get_average_frame_rate_from_metadata_um(metadata) ==
    LET average_frame_rate == GetOpt(metadata, "average_frame_rate")
    IN  IF average_frame_rate = None THEN << None, None >>
        ELSE << average_frame_rate, Some(metadata) >>

\* the test of main on the two lists
LengthsDiffer_always(seconds_list, frames_list) == TRUE
LengthsDiffer(seconds_list, frames_list) == Len(seconds_list) # Len(frames_list)

\* main, from the check that the file exists to the last print
Main_um ==
    /\ pc = "start"
    /\ pc' = "done"
    /\ args' = [folder |-> folder, metadata |-> metadata_json]
    /\ IF "metadata.json" \notin folder
       THEN /\ log' = << "print: Metadata file not found" >>
            /\ UNCHANGED << folder, metadata_json >>
       ELSE LET got == get_average_frame_rate_from_metadata_um(metadata_json)
                average_frame_rate == got[1]
            IN  IF average_frame_rate = None
                THEN /\ log' = << "print: Failed to read average frame rate" >>
                     /\ UNCHANGED << folder, metadata_json >>
                ELSE LET metadata == Val(got[2])
                         seconds_list == Get(metadata, "seconds", <<>>)
                         frames_list == Get(metadata, "frames", <<>>)
                         differ == LengthsDiffer(seconds_list, frames_list)
                     IN  /\ metadata_json' =
                               IF differ
                               THEN Put(metadata, "frames",
                                        seconds_to_frames_um(seconds_list, Val(average_frame_rate)))
                               ELSE metadata
                         /\ folder' = folder \cup {"metadata.json"}
                         /\ log' = (IF differ THEN << "print: Mismatch in lengths" >> ELSE <<>>)
                                   \o << "write: metadata.json", "print: Data has been written" >>
    /\ UNCHANGED << body_tracking_json, highlights_csv, ret >>
    /\ UNCHANGED captureVars

InitUM ==
    /\ pc = "start"
    /\ \E md \in MetadataDrawn(RatesDrawn, SeqsUpTo(0..MaxSec, MaxLen),
                                 SeqsUpTo(0..MaxFrame, MaxLen), {<<"7">>}) :
          \/ folder = {"metadata.json"} /\ metadata_json = md
          \/ folder = {} /\ metadata_json = EmptyDict /\ md = EmptyDict
    /\ body_tracking_json = <<>>
    /\ highlights_csv = <<>>
    /\ args = Nothing
    /\ ret = Nothing
    /\ log = <<>>
    /\ NoCapture

NextUM == Main_um

SpecUM == InitUM /\ [][NextUM]_vars

Wrote(file) == \E i \in 1..Len(log) : log[i] = "write: " \o file

\* the run of main read a metadata.json that has an average_frame_rate
RanWithRate ==
    /\ pc = "done"
    /\ "metadata.json" \in args.folder
    /\ "average_frame_rate" \in DOMAIN args.metadata

\* C7: after main completes on a metadata.json that has an average_frame_rate,
\* 'frames' is as long as 'seconds' and frames[i] is seconds[i] *
\* average_frame_rate truncated to an integer.
C7_FramesMatchSeconds ==
    RanWithRate =>
        LET seconds == Get(metadata_json, "seconds", <<>>)
            frames == Get(metadata_json, "frames", <<>>)
        IN  /\ Len(frames) = Len(seconds)
            /\ \A i \in 1..Len(seconds) :
                   IsTruncation(frames[i], seconds[i] * metadata_json["average_frame_rate"],
                                Den * Den)

\* C8: main recomputes 'frames' only when the lengths of 'seconds' and
\* 'frames' differ; with equal lengths the metadata written is the metadata
\* read, and in both cases every key but 'frames' keeps its value.
C8_OnlyFramesChange ==
    RanWithRate =>
        LET before == args.metadata
            same_length == Len(Get(before, "seconds", <<>>)) = Len(Get(before, "frames", <<>>))
        IN  /\ Wrote("metadata.json")
            /\ same_length => metadata_json = before
            /\ ~same_length =>
                   /\ "frames" \in DOMAIN metadata_json
                   /\ metadata_json["frames"] =
                          seconds_to_frames_uj(Get(before, "seconds", <<>>),
                                               before["average_frame_rate"])
            /\ DOMAIN metadata_json \subseteq (DOMAIN before) \cup {"frames"}
            /\ \A k \in (DOMAIN before) \ {"frames"} :
                   k \in DOMAIN metadata_json /\ metadata_json[k] = before[k]

\* main ran on lists of equal length whose frames are not the conversion of
\* the seconds, beside a further key.
C8_Witness ==
    /\ RanWithRate
    /\ "body_tracking_errors" \in DOMAIN args.metadata
    /\ "seconds" \in DOMAIN args.metadata
    /\ "frames" \in DOMAIN args.metadata
    /\ Len(args.metadata["seconds"]) = MaxLen
    /\ Len(args.metadata["frames"]) = MaxLen
    /\ args.metadata["frames"] #
           seconds_to_frames_uj(args.metadata["seconds"], args.metadata["average_frame_rate"])
    /\ metadata_json = args.metadata

\* C9: main changes nothing on its error paths: without metadata.json it
\* returns without creating it, and without an average_frame_rate it returns
\* without writing the file.
C9_ErrorPathsWriteNothing ==
    (pc = "done" /\ ~RanWithRate) =>
        /\ folder = args.folder
        /\ metadata_json = args.metadata
        /\ ~Wrote("metadata.json")
        /\ Len(log) = 1

\* main ran on a metadata.json without a rate whose lists differ in length
C9_Witness ==
    /\ pc = "done"
    /\ "metadata.json" \in args.folder
    /\ "average_frame_rate" \notin DOMAIN args.metadata
    /\ "seconds" \in DOMAIN args.metadata
    /\ Len(args.metadata["seconds"]) = MaxLen
    /\ "frames" \notin DOMAIN args.metadata
    /\ folder = {"metadata.json"}

----------------------------------------------------------------------------
(* svo_export/update_json.py *)

MaxInput == 3     \* longest line of input drawn, in characters

\* The lines the user may enter: digits and spaces.
InputChars == {"1", "3", " "}
InputsDrawn == SeqsUpTo(InputChars, MaxInput)

\* str.split(): the maximal runs of characters that are not whitespace
RECURSIVE SplitFrom(_, _, _)
SplitFrom(line, token, tokens) ==
    IF line = <<>>
    THEN IF token = <<>> THEN tokens ELSE Append(tokens, token)
    ELSE IF Head(line) = " "
         THEN SplitFrom(Tail(line), <<>>,
                        IF token = <<>> THEN tokens ELSE Append(tokens, token))
         ELSE SplitFrom(Tail(line), Append(token, Head(line)), tokens)

Split(line) == SplitFrom(line, <<>>, <<>>)

DigitValue(c) ==
    CASE c = "0" -> 0 [] c = "1" -> 1 [] c = "2" -> 2 [] c = "3" -> 3 [] c = "4" -> 4
      [] c = "5" -> 5 [] c = "6" -> 6 [] c = "7" -> 7 [] c = "8" -> 8 [] c = "9" -> 9

\* int(s) of a string of decimal digits
RECURSIVE IntOfStrFrom(_, _)
IntOfStrFrom(digits, acc) ==
    IF digits = <<>> THEN acc
    ELSE IntOfStrFrom(Tail(digits), 10 * acc + DigitValue(Head(digits)))

IntOfStr(digits) == IntOfStrFrom(digits, 0)

\* A Python int, as the fixed-point number it is when a float multiplies it.
Num(i) == i * Den

\* get_average_frame_rate_from_metadata: the rate and the 'data' entry
get_average_frame_rate_from_metadata_uj(metadata) ==
    << GetOpt(metadata, "average_frame_rate"), Get(metadata, "data", EmptyDict) >>

\* write_data_to_json: the dictionary it dumps
write_data_to_json_uj(average_frame_rate, seconds, frames) ==
    [k \in {"average_frame_rate", "seconds", "frames"} |->
        CASE k = "average_frame_rate" -> average_frame_rate
          [] k = "seconds" -> seconds
          [] k = "frames" -> frames]

\* main: reads metadata.json, prompts for the seconds, writes metadata.json
Main_uj ==
    /\ pc = "start"
    /\ \E seconds_input \in InputsDrawn :
        /\ args' = [folder |-> folder, metadata |-> metadata_json, input |-> seconds_input]
        /\ IF "metadata.json" \notin folder
           THEN /\ pc' = "raised"
                /\ log' = << "raise: FileNotFoundError" >>
                /\ UNCHANGED << folder, metadata_json >>
           ELSE LET got == get_average_frame_rate_from_metadata_uj(metadata_json)
                    average_frame_rate == got[1]
                    tokens == Split(seconds_input)
                    seconds_list == [i \in 1..Len(tokens) |-> Num(IntOfStr(tokens[i]))]
                    frames_list == seconds_to_frames_uj(seconds_list, Val(average_frame_rate))
                    existing_data == Put(Put(got[2], "seconds", seconds_list),
                                         "frames", frames_list)
                IN  IF average_frame_rate = None
                    THEN /\ pc' = "returned"
                         /\ log' = << "print: Failed to read average frame rate" >>
                         /\ UNCHANGED << folder, metadata_json >>
                    ELSE /\ pc' = "done"
                         /\ metadata_json' =
                                write_data_to_json_uj(Val(average_frame_rate),
                                                      seconds_list, frames_list)
                         /\ UNCHANGED folder
                         /\ log' = << "write: metadata.json", "print: Data has been written" >>
    /\ UNCHANGED << body_tracking_json, highlights_csv, ret >>
    /\ UNCHANGED captureVars

InitUJ ==
    /\ pc = "start"
    /\ \E md \in MetadataDrawn(RatesDrawn, {<< Num(1) >>}, {<< 0 >>}, {<<"7">>}) :
          \/ folder = {"metadata.json"} /\ metadata_json = md
          \/ folder = {} /\ metadata_json = EmptyDict /\ md = EmptyDict
    /\ body_tracking_json = <<>>
    /\ highlights_csv = <<>>
    /\ args = Nothing
    /\ ret = Nothing
    /\ log = <<>>
    /\ NoCapture

NextUJ == Main_uj

SpecUJ == InitUJ /\ [][NextUJ]_vars

\* C10: after main has run, 'seconds' is the list the user entered, 'frames'
\* is its conversion by seconds_to_frames, average_frame_rate is unchanged and
\* every other entry metadata.json held before the run is still there.
C10_UpdatesExistingMetadata ==
    pc = "done" =>
        LET before == args.metadata
            entered == [i \in 1..Len(Split(args.input)) |->
                           Num(IntOfStr(Split(args.input)[i]))]
        IN  /\ metadata_json["seconds"] = entered
            /\ metadata_json["frames"] =
                   seconds_to_frames_uj(entered, before["average_frame_rate"])
            /\ metadata_json["average_frame_rate"] = before["average_frame_rate"]
            /\ \A k \in (DOMAIN before) \ {"seconds", "frames"} :
                   k \in DOMAIN metadata_json /\ metadata_json[k] = before[k]

----------------------------------------------------------------------------
(* body_tracking.json as the labelling scripts read it: a dictionary from  *)
(* the frame number, a string of digits, to a dictionary from the body's   *)
(* key to the body, itself a dictionary of fields.  Each dictionary is the *)
(* sequence of its <<key, value>> pairs in file order; a scalar value is   *)
(* its JSON text ("true", "0").                                            *)

MaxFrames == 2    \* most frames drawn for body_tracking.json
MaxBodies == 2    \* most bodies drawn for a frame
MaxPairs == 2     \* most (start, end) pairs drawn for a list of intervals

Keys(dict) == {dict[i][1] : i \in 1..Len(dict)}
HasKey(dict, k) == k \in Keys(dict)
At(dict, k) == dict[CHOOSE i \in 1..Len(dict) : dict[i][1] = k][2]

\* json.dump of a Python bool and of a Python int 0 or 1
JsonBool(b) == IF b THEN "true" ELSE "false"
JsonBit(b) == IF b THEN "1" ELSE "0"

DigitChar(d) ==
    CASE d = 0 -> "0" [] d = 1 -> "1" [] d = 2 -> "2" [] d = 3 -> "3" [] d = 4 -> "4"
      [] d = 5 -> "5" [] d = 6 -> "6" [] d = 7 -> "7" [] d = 8 -> "8" [] d = 9 -> "9"

\* the decimal string of a frame number below 100
DecimalStr(n) == IF n < 10 THEN << DigitChar(n) >>
                 ELSE << DigitChar(n \div 10), DigitChar(n % 10) >>

\* The frame numbers drawn for label.py run over the step from one digit to
\* two: 9, 10, ...
FrameNumbersDrawn == 9..(8 + MaxFrames)

\* A body as the tracker records it, and as a run of label.py leaves it.
BodyDrawn(inner_key, label) ==
    (IF label = "none" THEN <<>> ELSE << << "confused", label >> >>)
        \o << << "id", inner_key >> >>

\* The files drawn: n frames numbered from first, each frame with some
\* bodies, the bodies of a frame all unlabelled or all carrying the frame's
\* label.
BodyTrackingDrawn(first, labels) ==
    UNION { { [f \in 1..n |->
                << DecimalStr(first + f - 1),
                   [b \in 1..count[f] |->
                       << DecimalStr(b - 1), BodyDrawn(DecimalStr(b - 1), label[f]) >>] >>] :
              count \in [1..n -> 0..MaxBodies], label \in [1..n -> labels] } :
            n \in 0..MaxFrames }

\* every frame of the file has the same number of bodies
SameCounts(file) == \A f \in 1..Len(file) : Len(file[f][2]) = Len(file[1][2])

Labelled(file) ==
    \A f \in 1..Len(file) : \A b \in 1..Len(file[f][2]) : HasKey(file[f][2][b][2], "confused")
Unlabelled(file) ==
    \A f \in 1..Len(file) : \A b \in 1..Len(file[f][2]) : ~HasKey(file[f][2][b][2], "confused")

----------------------------------------------------------------------------
(* Data Preparation/label.py *)

\* OrderedDict(pairs): a key met again keeps its place and takes the new value
RECURSIVE OrderedDictFrom(_, _)
OrderedDictFrom(pairs, dict) ==
    IF pairs = <<>> THEN dict
    ELSE LET k == Head(pairs)[1]
             v == Head(pairs)[2]
         IN  OrderedDictFrom(Tail(pairs),
                 IF HasKey(dict, k)
                 THEN [i \in 1..Len(dict) |-> IF dict[i][1] = k THEN << k, v >> ELSE dict[i]]
                 ELSE Append(dict, << k, v >>))

OrderedDict(pairs) == OrderedDictFrom(pairs, <<>>)

\* extract_intervals, on a list of even length: the set of the frames of
\* range(start, end + 1) over the pairs
extract_intervals_exclusive(frames) ==
    UNION { frames[2 * k - 1] .. (frames[2 * k] - 1) : k \in 1..(Len(frames) \div 2) }
extract_intervals(frames) ==
    UNION { frames[2 * k - 1] .. frames[2 * k] : k \in 1..(Len(frames) \div 2) }

\* label_confused
label_confused_label(body_tracking, intervals) ==
    [f \in 1..Len(body_tracking) |->
        LET frame_number == IntOfStr(body_tracking[f][1])
            frame_data == body_tracking[f][2]
            confused_value == JsonBool(frame_number \in intervals)
        IN  << body_tracking[f][1],
               [b \in 1..Len(frame_data) |->
                   << frame_data[b][1],
                      OrderedDict(<< << "confused", confused_value >> >> \o frame_data[b][2]) >>] >>]

\* main: metadata['frames'] is a KeyError without the key, and frames[i+1]
\* an IndexError on a list of odd length; both leave the files as they were.
Main_label ==
    /\ pc \in {"start", "done"}
    /\ args' = [metadata |-> metadata_json, body_tracking |-> body_tracking_json]
    /\ IF "frames" \notin DOMAIN metadata_json
       THEN /\ pc' = "raised"
            /\ log' = << "raise: KeyError" >>
            /\ UNCHANGED body_tracking_json
       ELSE IF Len(metadata_json["frames"]) % 2 # 0
       THEN /\ pc' = "raised"
            /\ log' = << "raise: IndexError" >>
            /\ UNCHANGED body_tracking_json
       ELSE /\ pc' = "done"
            /\ body_tracking_json' =
                   label_confused_label(body_tracking_json,
                                        extract_intervals(metadata_json["frames"]))
            /\ log' = << "write: body_tracking.json" >>
    /\ UNCHANGED << folder, metadata_json, highlights_csv, ret >>
    /\ UNCHANGED captureVars

FramesListsDrawn == SeqsUpTo(FrameNumbersDrawn, 2 * MaxPairs)

\* metadata.json as svo_export and update_metadata.py leave it, with or
\* without its 'frames'
InitLabel ==
    /\ pc = "start"
    /\ folder = {"metadata.json", "body_tracking.json"}
    /\ body_tracking_json \in
           {file \in BodyTrackingDrawn(9, {"none", "true", "false"}) :
               SameCounts(file) /\ (Labelled(file) \/ Unlabelled(file))}
    /\ \/ \E frames \in FramesListsDrawn :
             metadata_json = [k \in {"average_frame_rate", "seconds", "frames"} |->
                                 CASE k = "average_frame_rate" -> Num(1)
                                   [] k = "seconds" -> <<>>
                                   [] k = "frames" -> frames]
       \/ metadata_json = [k \in {"average_frame_rate", "seconds"} |->
                               IF k = "average_frame_rate" THEN Num(1) ELSE <<>>]
    /\ highlights_csv = <<>>
    /\ args = Nothing
    /\ ret = Nothing
    /\ log = <<>>
    /\ NoCapture

NextLabel == Main_label

SpecLabel == InitLabel /\ [][NextLabel]_vars

\* frame number f lies in one of the pairs of the list, both ends included
InSomePair(f, frames) ==
    \E k \in 1..(Len(frames) \div 2) : frames[2 * k - 1] <= f /\ f <= frames[2 * k]

\* every body of the file carries the label its frame has by the list
LabelledBy(file, frames) ==
    \A f \in 1..Len(file) : \A b \in 1..Len(file[f][2]) :
        /\ HasKey(file[f][2][b][2], "confused")
        /\ At(file[f][2][b][2], "confused")
               = JsonBool(InSomePair(IntOfStr(file[f][1]), frames))

SameFramesAndBodies(file, other) ==
    /\ Len(file) = Len(other)
    /\ \A f \in 1..Len(file) :
           /\ file[f][1] = other[f][1]
           /\ Len(file[f][2]) = Len(other[f][2])
           /\ \A b \in 1..Len(file[f][2]) : file[f][2][b][1] = other[f][2][b][1]

\* C1: for a 'frames' list of even length and bodies without a 'confused'
\* field, after extract_intervals and label_confused every body of frame f
\* has confused = true exactly when s_k <= f <= e_k for some pair k, and
\* false otherwise; the bodies of a frame all get the same value.
C1_LabelsFollowIntervals ==
    (pc = "done" /\ Unlabelled(args.body_tracking)) =>
        /\ SameFramesAndBodies(body_tracking_json, args.body_tracking)
        /\ LabelledBy(body_tracking_json, args.metadata["frames"])

\* label.py ran on unlabelled data of two frames of two bodies each, under
\* two pairs, and one frame came out false and the other true.
C1_Witness ==
    /\ pc = "done"
    /\ Unlabelled(args.body_tracking)
    /\ Len(args.metadata["frames"]) = 4
    /\ Len(body_tracking_json) = 2
    /\ Len(body_tracking_json[1][2]) = 2
    /\ Len(body_tracking_json[2][2]) = 2
    /\ At(body_tracking_json[1][2][1][2], "confused") = "false"
    /\ At(body_tracking_json[1][2][2][2], "confused") = "false"
    /\ At(body_tracking_json[2][2][1][2], "confused") = "true"
    /\ At(body_tracking_json[2][2][2][2], "confused") = "true"

\* C2: label_confused labels each frame by the intervals it is given whatever
\* the bodies held before: a body that already has a 'confused' field has,
\* after the call, the value (frame number in intervals).
C2_RelabelsLabelledData ==
    pc = "done" => LabelledBy(body_tracking_json, args.metadata["frames"])

----------------------------------------------------------------------------
(* data_preparation/data_preparation.py *)

MaxRows == 2      \* most rows drawn for the highlights CSV

\* A result: << "ok", value >>, or << "raise", exception >>.
Ok(v) == << "ok", v >>
Raise(e) == << "raise", e >>
Raised(r) == r[1] = "raise"

\* The rows drawn for reduct-highlights-export.csv.  Timestamp and Duration
\* are held as the seconds pd.to_timedelta(...).total_seconds() gives.
TimestampsDrawn == {1, 3}
DurationsDrawn == {0, 2}
RowsDrawn == [Timestamp : TimestampsDrawn, Duration : DurationsDrawn, Tags : {"RH", "C"}]

\* calculate_end_times_with_updated_csv: (times, rh_intervals)
calculate_end_times_with_updated_csv(df) ==
    LET interval(row) == << row.Timestamp, row.Timestamp + row.Duration >>
        is_rh(row) == row.Tags = "RH"
        rh_rows == SelectSeq(df, is_rh)
    IN  << [i \in 1..Len(df) |-> interval(df[i])],
           [i \in 1..Len(rh_rows) |-> interval(rh_rows[i])] >>

get_average_frame_rate_from_metadata_dp(metadata) ==
    LET average_frame_rate == GetOpt(metadata, "average_frame_rate")
    IN  IF average_frame_rate = None THEN << None, None >>
        ELSE << average_frame_rate, Some(metadata) >>

\* seconds_to_frames.  Its body is [int(<generator>)]: int() of a generator
\* object is a TypeError whatever the list holds.  (Its def line, which
\* lacks a comma, is a SyntaxError as written, so that python refuses the
\* file before anything runs; read with the comma, the two-argument calls of
\* it are a TypeError as well.  No reading returns a list.)
seconds_to_frames_dp(confused, average_frame_rate) == Raise("TypeError")

\* list.extend of (start, end) pairs, one element after the other
RECURSIVE AppendPairs(_, _)
AppendPairs(list, pairs) ==
    IF pairs = <<>> THEN list
    ELSE AppendPairs(Append(Append(list, Head(pairs)[1]), Head(pairs)[2]), Tail(pairs))

\* update_metadata_with_csv: the metadata it writes, or what it raises
update_metadata_with_csv(metadata, df) ==
    LET ends == calculate_end_times_with_updated_csv(df)
        confused == AppendPairs(Get(metadata, "confused", <<>>), ends[1])
        rh == AppendPairs(Get(metadata, "rh", <<>>), ends[2])
        average_frame_rate == Get(metadata, "average_frame_rate", Num(30))
        confused_frames_list == seconds_to_frames_dp(confused, average_frame_rate)
        rh_frames_list == seconds_to_frames_dp(rh, average_frame_rate)
    IN  IF Raised(confused_frames_list) THEN confused_frames_list
        ELSE IF Raised(rh_frames_list) THEN rh_frames_list
        ELSE Ok(Put(Put(Put(Put(metadata, "confused", confused), "rh", rh),
                        "confused_frames", confused_frames_list[2]),
                    "rh_frames", rh_frames_list[2]))

\* extract_intervals_from_metadata: the set of frames, or what it raises
extract_intervals_from_metadata(metadata, average_frame_rate) ==
    LET intervals_in_seconds == Get(metadata, "seconds", <<>>)
        frames_list == seconds_to_frames_dp(intervals_in_seconds, average_frame_rate)
    IN  IF Raised(frames_list) THEN frames_list
        ELSE IF Len(frames_list[2]) % 2 # 0 THEN Raise("IndexError")
        ELSE Ok(extract_intervals(frames_list[2]))

\* dict[key] = value: in place for a key the dictionary has, at the end otherwise
DictSet(dict, k, v) ==
    IF HasKey(dict, k)
    THEN [i \in 1..Len(dict) |-> IF dict[i][1] = k THEN << k, v >> ELSE dict[i]]
    ELSE Append(dict, << k, v >>)

\* label_confused
label_confused_dp(body_tracking_data, intervals) ==
    [f \in 1..Len(body_tracking_data) |->
        LET frame_number == IntOfStr(body_tracking_data[f][1])
            frame_data == body_tracking_data[f][2]
            confused_value == JsonBool(frame_number \in intervals)
        IN  << body_tracking_data[f][1],
               [b \in 1..Len(frame_data) |->
                   << frame_data[b][1],
                      DictSet(frame_data[b][2], "confused", confused_value) >>] >>]

\* the test of label_help on a frame and an interval in frames
InFrames_open(start_frame, frame_number, end_frame) ==
    start_frame <= frame_number /\ frame_number < end_frame
InFrames(start_frame, frame_number, end_frame) ==
    start_frame <= frame_number /\ frame_number <= end_frame

\* label_help
label_help(body_tracking_data, rh_intervals, average_frame_rate) ==
    LET rh_intervals_in_frames ==
            [i \in 1..Len(rh_intervals) |->
                << PyInt(rh_intervals[i][1] * average_frame_rate, Den * Den),
                   PyInt(rh_intervals[i][2] * average_frame_rate, Den * Den) >>]
    IN  [f \in 1..Len(body_tracking_data) |->
            LET frame_number == IntOfStr(body_tracking_data[f][1])
                frame_data == body_tracking_data[f][2]
                help_value ==
                    JsonBit(\E i \in 1..Len(rh_intervals_in_frames) :
                               InFrames(rh_intervals_in_frames[i][1], frame_number,
                                        rh_intervals_in_frames[i][2]))
            IN  << body_tracking_data[f][1],
                   [b \in 1..Len(frame_data) |->
                       << frame_data[b][1],
                          DictSet(frame_data[b][2], "help", help_value) >>] >>]

\* the frames flatten_json reports: those with more than one body
frames_with_errors(json_data) ==
    LET crowded(frame) == Len(frame[2]) > 1
        frames == SelectSeq(json_data, crowded)
    IN  [i \in 1..Len(frames) |-> frames[i][1]]

\* main, up to the metadata and the body tracking file it leaves
Main_dp ==
    /\ pc = "start"
    /\ args' = [metadata |-> metadata_json, body_tracking |-> body_tracking_json,
                csv |-> highlights_csv]
    /\ LET updated == update_metadata_with_csv(metadata_json, highlights_csv)
       IN  IF Raised(updated)
           THEN /\ pc' = "main raised"
                /\ log' = << "raise: " \o updated[2] >>
                /\ UNCHANGED << metadata_json, body_tracking_json >>
           ELSE
       LET got == get_average_frame_rate_from_metadata_dp(updated[2])
       IN  IF got[1] = None
           THEN /\ pc' = "main returned"
                /\ log' = << "write: metadata.json",
                             "print: Average frame rate not found in metadata." >>
                /\ metadata_json' = updated[2]
                /\ UNCHANGED body_tracking_json
           ELSE
       LET average_frame_rate == Val(got[1])
           metadata == Val(got[2])
           intervals == extract_intervals_from_metadata(metadata, average_frame_rate)
       IN  IF Raised(intervals)
           THEN /\ pc' = "main raised"
                /\ log' = << "write: metadata.json", "raise: " \o intervals[2] >>
                /\ metadata_json' = updated[2]
                /\ UNCHANGED body_tracking_json
           ELSE
       LET rh_intervals == calculate_end_times_with_updated_csv(highlights_csv)[2]
           labeled == label_help(label_confused_dp(body_tracking_json, intervals[2]),
                                 rh_intervals, average_frame_rate)
       IN  /\ pc' = "main done"
           /\ log' = << "write: metadata.json", "write: body_tracking.json",
                        "write: metadata.json", "write: csv" >>
           /\ body_tracking_json' = labeled
           /\ metadata_json' = Put(metadata, "body_tracking_errors",
                                   frames_with_errors(labeled))
    /\ UNCHANGED << folder, highlights_csv, ret >>
    /\ UNCHANGED captureVars

\* seconds_to_frames called as update_metadata_with_csv calls it
CallS2F_dp ==
    /\ pc = "start"
    /\ pc' = "seconds_to_frames returned"
    /\ args' = [seconds |-> AppendPairs(<<>>,
                                calculate_end_times_with_updated_csv(highlights_csv)[1]),
                average_frame_rate |-> metadata_json["average_frame_rate"]]
    /\ ret' = seconds_to_frames_dp(args'.seconds, args'.average_frame_rate)
    /\ UNCHANGED << folder, metadata_json, body_tracking_json, highlights_csv, log >>
    /\ UNCHANGED captureVars

\* label_help called as main calls it
CallLabelHelp ==
    /\ pc = "start"
    /\ pc' = "label_help returned"
    /\ args' = [body_tracking_data |-> body_tracking_json,
                rh_intervals |-> calculate_end_times_with_updated_csv(highlights_csv)[2],
                average_frame_rate |-> metadata_json["average_frame_rate"]]
    /\ ret' = label_help(args'.body_tracking_data, args'.rh_intervals,
                         args'.average_frame_rate)
    /\ UNCHANGED << folder, metadata_json, body_tracking_json, highlights_csv, log >>
    /\ UNCHANGED captureVars

\* every frame of the file has the same number of bodies and the same label
Uniform(file) ==
    /\ SameCounts(file)
    /\ \A f \in 1..Len(file) : Len(file[f][2]) > 0 => file[f][2][1][2] = file[1][2][1][2]

InitDP ==
    /\ pc = "start"
    /\ folder = {"metadata.json", "body_tracking.json", "reduct-highlights-export.csv"}
    /\ \E r \in RatesDrawn :
          metadata_json = [k \in {"average_frame_rate", "seconds", "frames"} |->
                              IF k = "average_frame_rate" THEN r ELSE <<>>]
    /\ body_tracking_json \in
           {file \in BodyTrackingDrawn(0, {"none", "true", "false"}) : Uniform(file)}
    /\ highlights_csv \in SeqsUpTo(RowsDrawn, MaxRows)
    /\ args = Nothing
    /\ ret = Nothing
    /\ log = <<>>
    /\ NoCapture

NextDP == Main_dp \/ CallS2F_dp \/ CallLabelHelp

SpecDP == InitDP /\ [][NextDP]_vars

\* frame f lies between int(start * rate) and int(end * rate), both ends
\* included, start and end not negative: start * rate < f + 1 and
\* f <= end * rate
InSecondsInterval(f, start, end, rate) ==
    /\ start * rate < (f + 1) * Den * Den
    /\ f * Den * Den <= end * rate

\* C3: main labels a frame confused exactly when its number lies between
\* int(start * average_frame_rate) and int(end * average_frame_rate) for some
\* row of the highlights CSV, start its Timestamp and end Timestamp + Duration.
C3_ConfusedFollowsCsv ==
    pc \in {"main done", "main returned", "main raised"} =>
        \A f \in 1..Len(body_tracking_json) : \A b \in 1..Len(body_tracking_json[f][2]) :
            LET body == body_tracking_json[f][2][b][2]
                frame_number == IntOfStr(body_tracking_json[f][1])
            IN  /\ HasKey(body, "confused")
                /\ At(body, "confused") =
                       JsonBool(\E i \in 1..Len(args.csv) :
                                   InSecondsInterval(frame_number, args.csv[i].Timestamp,
                                       args.csv[i].Timestamp + args.csv[i].Duration,
                                       args.metadata["average_frame_rate"]))

WithoutKey(dict, k) ==
    LET other(pair) == pair[1] # k
    IN  SelectSeq(dict, other)

\* C4: label_help sets 'help' on every body of every frame: 1 exactly when
\* int(start * rate) <= f <= int(end * rate) for at least one RH interval,
\* 0 otherwise (so 0 everywhere for an empty list), and changes no other
\* field of any body.
C4_LabelHelp ==
    pc = "label_help returned" =>
        /\ SameFramesAndBodies(ret, args.body_tracking_data)
        /\ \A f \in 1..Len(ret) : \A b \in 1..Len(ret[f][2]) :
               LET body == ret[f][2][b][2]
                   frame_number == IntOfStr(ret[f][1])
               IN  /\ HasKey(body, "help")
                   /\ At(body, "help") =
                          JsonBit(\E i \in 1..Len(args.rh_intervals) :
                                     InSecondsInterval(frame_number,
                                         args.rh_intervals[i][1], args.rh_intervals[i][2],
                                         args.average_frame_rate))
                   /\ WithoutKey(body, "help") =
                          WithoutKey(args.body_tracking_data[f][2][b][2], "help")

\* label_help ran on two RH intervals and two frames of two labelled bodies:
\* frame 0 lies in neither interval and frame 1 at the end of the first.
C4_Witness ==
    /\ pc = "label_help returned"
    /\ Len(args.rh_intervals) = 2
    /\ Len(ret) = 2
    /\ Len(ret[1][2]) = 2
    /\ HasKey(ret[2][2][2][2], "confused")
    /\ At(ret[1][2][1][2], "help") = "0"
    /\ At(ret[2][2][2][2], "help") = "1"
    /\ PyInt(args.rh_intervals[1][2] * args.average_frame_rate, Den * Den) = 1
    /\ PyInt(args.rh_intervals[2][2] * args.average_frame_rate, Den * Den) > 1

\* C6: seconds_to_frames returns one frame number per input second, each
\* that second multiplied by the average frame rate and truncated to an
\* integer.
C6_SecondsToFrames ==
    pc = "seconds_to_frames returned" =>
        /\ ~Raised(ret)
        /\ Len(ret[2]) = Len(args.seconds)
        /\ \A i \in 1..Len(args.seconds) :
               IsTruncation(ret[2][i], args.seconds[i] * args.average_frame_rate, Den * Den)

----------------------------------------------------------------------------
(* JSON values of any shape                                                *)
(*                                                                         *)
(* check_outermost_keys and flatten_json ask each value for its type, so   *)
(* here a JSON value carries its kind: a scalar holds its JSON text, a     *)
(* list its elements, a dictionary its <<key, value>> pairs in file order, *)
(* the keys being strings.                                                 *)

MaxItems == 2     \* most elements drawn for a list inside a body

JScalar(text) == [kind |-> "scalar", val |-> << text >>]
JList(items) == [kind |-> "list", val |-> items]
JDict(pairs) == [kind |-> "dict", val |-> pairs]

\* isinstance(value, dict), isinstance(value, list)
IsDict(value) == value.kind = "dict"
IsList(value) == value.kind = "list"

\* the f-string of a column name: f'{key}_{i}'
Column(key, i) == key \o "_" \o ToString(i)

\* A body with no fields but its id, and a body as the tracker records it,
\* its keypoint an n by m list of lists and its keypoint_confidence a list
\* of p numbers, every leaf with a text of its own; the file may give the
\* body one more field, named as it likes.
SimpleBodyDrawn(inner_key) == JDict(<< << "id", JScalar(inner_key) >> >>)
ExtraFieldsDrawn == { <<>>, << << "keypoint_confidence_0", JScalar("extra") >> >> }
ShapedBodyDrawn(inner_key, n, m, p, extra) ==
    JDict(<< << "id", JScalar(inner_key) >>,
             << "keypoint",
                JList([i \in 1..n |->
                         JList([j \in 1..m |-> JScalar(ToString(i) \o "." \o ToString(j))])]) >>,
             << "keypoint_confidence",
                JList([i \in 1..p |-> JScalar(ToString(i))]) >>,
             << "confused", JScalar("false") >> >> \o extra)

\* The values drawn for one frame: a dictionary of bodies, some of them not
\* dictionaries, or a value that is no dictionary at all.
FrameValuesDrawn ==
    UNION { { JDict([b \in 1..n |->
                       << ToString(b - 1),
                          IF isdict[b] THEN SimpleBodyDrawn(ToString(b - 1))
                          ELSE JScalar("0") >>]) :
              isdict \in [1..n -> BOOLEAN] } :
            n \in 0..MaxBodies }
      \cup { JList(<<>>), JScalar("0") }

\* The files drawn: some frames of every kind, or one frame of one body of
\* every shape.
JsonDataDrawn ==
    UNION { { JDict([f \in 1..n |-> << ToString(f - 1), value[f] >>]) :
              value \in [1..n -> FrameValuesDrawn] } :
            n \in 0..MaxFrames }
      \cup { JDict(<< << "0", JDict(<< << "0", ShapedBodyDrawn("0", n, m, p, extra) >> >>) >> >>) :
             n \in 0..MaxItems, m \in 0..MaxItems, p \in 0..MaxItems,
             extra \in ExtraFieldsDrawn }

----------------------------------------------------------------------------
(* data_preparation/data_preparation.py: check_outermost_keys *)

RECURSIVE check_outermost_keys_from(_, _)
check_outermost_keys_from(items, i) ==
    IF i > Len(items) THEN TRUE
    ELSE IF IsDict(items[i][2]) /\ Len(items[i][2].val) # 1 THEN FALSE
    ELSE check_outermost_keys_from(items, i + 1)

check_outermost_keys(json_data) == check_outermost_keys_from(json_data.val, 1)

----------------------------------------------------------------------------
(* flatten_json of data_preparation/data_preparation.py and of             *)
(* Data Preparation/data_preparation.py                                    *)
(*                                                                         *)
(* A record is the dictionary of one row: its <<column, value>> pairs in   *)
(* the order the columns were first set.                                   *)

\* for j, subvalue in enumerate(sublist): record[f'{key}_{i}_{j}'] = subvalue
RECURSIVE flatten_sublist(_, _, _, _, _)
flatten_sublist(record, key, i, sublist, j) ==
    IF j >= Len(sublist.val) THEN record
    ELSE flatten_sublist(DictSet(record, Column(Column(key, i), j), sublist.val[j + 1]),
                         key, i, sublist, j + 1)

\* for i, sublist in enumerate(value): ...
RECURSIVE flatten_list_of_lists(_, _, _, _)
flatten_list_of_lists(record, key, value, i) ==
    IF i >= Len(value.val) THEN record
    ELSE flatten_list_of_lists(flatten_sublist(record, key, i, value.val[i + 1], 0),
                               key, value, i + 1)

\* for i, subvalue in enumerate(value): record[f'{key}_{i}'] = subvalue
RECURSIVE flatten_list(_, _, _, _)
flatten_list(record, key, value, i) ==
    IF i >= Len(value.val) THEN record
    ELSE flatten_list(DictSet(record, Column(key, i), value.val[i + 1]), key, value, i + 1)

\* the body of the loop over the fields of one body
flatten_field(record, key, value) ==
    IF IsList(value)
    THEN IF \A i \in 1..Len(value.val) : IsList(value.val[i])
         THEN flatten_list_of_lists(record, key, value, 0)
         ELSE flatten_list(record, key, value, 0)
    ELSE DictSet(record, key, value)

\* for key, value in inner_data.items(): ...
RECURSIVE flatten_fields(_, _, _)
flatten_fields(record, inner_data, k) ==
    IF k > Len(inner_data.val) THEN record
    ELSE flatten_fields(flatten_field(record, inner_data.val[k][1], inner_data.val[k][2]),
                        inner_data, k + 1)

\* the records of one frame: one for each of its values that is a dictionary
flatten_frame(record, frame_data) ==
    LET is_body(pair) == IsDict(pair[2])
        inner == SelectSeq(frame_data.val, is_body)
    IN  [b \in 1..Len(inner) |->
            flatten_fields(DictSet(record, "inner_key", JScalar(inner[b][1])),
                           inner[b][2], 1)]

\* len(frame_data) >= 1 in place of len(frame_data) > 1
too_many_bodies_from_one(frame_data) == Len(frame_data.val) >= 1
\* if len(frame_data) > 1: too_many_bodies = 1
too_many_bodies(frame_data) == Len(frame_data.val) > 1

\* The record starts with frame_number, inner_key and body_tracking_error in
\* that order; inner_key is set by flatten_frame.
RECURSIVE flatten_json_dp_from(_, _, _, _)
flatten_json_dp_from(items, f, records, errors) ==
    IF f > Len(items) THEN Ok(<< records, errors >>)
    ELSE LET frame == items[f][1]
             frame_data == items[f][2]
         IN  IF frame_data.kind = "scalar" THEN Raise("TypeError")
             ELSE IF ~IsDict(frame_data) THEN Raise("AttributeError")
             ELSE LET record == << << "frame_number", JScalar(frame) >>,
                                   << "inner_key", JScalar("") >>,
                                   << "body_tracking_error",
                                      JScalar(JsonBit(too_many_bodies(frame_data))) >> >>
                  IN  flatten_json_dp_from(items, f + 1,
                          records \o flatten_frame(record, frame_data),
                          IF too_many_bodies(frame_data) THEN Append(errors, frame)
                          ELSE errors)

flatten_json_dp(json_data) == flatten_json_dp_from(json_data.val, 1, <<>>, <<>>)

\* frame.get('frame_number')
FrameNumberOf(frame) ==
    IF HasKey(frame.val, "frame_number") THEN At(frame.val, "frame_number")
    ELSE JScalar("None")

RECURSIVE flatten_json_DP_from(_, _, _)
flatten_json_DP_from(frames, f, records) ==
    IF f > Len(frames) THEN Ok(records)
    ELSE LET frame == frames[f]
         IN  IF ~IsDict(frame) THEN Raise("AttributeError")
             ELSE LET record == << << "frame_number", FrameNumberOf(frame) >>,
                                   << "inner_key", JScalar("") >> >>
                  IN  flatten_json_DP_from(frames, f + 1,
                                           records \o flatten_frame(record, frame))

\* Iterating over a dictionary gives its keys, and a key has no get.
flatten_json_DP(json_data) ==
    IF IsDict(json_data)
    THEN IF json_data.val = <<>> THEN Ok(<<>>) ELSE Raise("AttributeError")
    ELSE flatten_json_DP_from(json_data.val, 1, <<>>)

\* The file as label_body_tracking leaves it for the second flatten_json: a
\* list of frames, each a dictionary with its frame_number, its bodies and
\* its label.
FrameListOf(json_data) ==
    JList([f \in 1..Len(json_data.val) |->
             LET frame == json_data.val[f][1]
                 frame_data == json_data.val[f][2]
             IN  IF IsDict(frame_data)
                 THEN JDict(<< << "frame_number", JScalar(frame) >> >> \o frame_data.val
                            \o << << "label", JScalar("0") >> >>)
                 ELSE frame_data])

InitFlatten ==
    /\ pc = "call"
    /\ folder = {}
    /\ metadata_json = EmptyDict
    /\ body_tracking_json = <<>>
    /\ highlights_csv = <<>>
    /\ \E json_data \in JsonDataDrawn :
           args = [json_data |-> json_data, frames |-> FrameListOf(json_data)]
    /\ ret = Nothing
    /\ log = <<>>
    /\ NoCapture

CallCheckOutermostKeys ==
    /\ pc = "call"
    /\ pc' = "check_outermost_keys"
    /\ ret' = check_outermost_keys(args.json_data)
    /\ log' = IF ret' THEN <<>> ELSE << "print: The frame has more than one bodies" >>
    /\ UNCHANGED <<folder, metadata_json, body_tracking_json, highlights_csv, args>>
    /\ UNCHANGED captureVars

CallFlattenJson_dp ==
    /\ pc = "call"
    /\ pc' = "flatten_json dp"
    /\ ret' = flatten_json_dp(args.json_data)
    /\ UNCHANGED <<folder, metadata_json, body_tracking_json, highlights_csv, args, log>>
    /\ UNCHANGED captureVars

CallFlattenJson_DP ==
    /\ pc = "call"
    /\ pc' = "flatten_json DP"
    /\ ret' = flatten_json_DP(args.frames)
    /\ UNCHANGED <<folder, metadata_json, body_tracking_json, highlights_csv, args, log>>
    /\ UNCHANGED captureVars

NextFlatten == CallCheckOutermostKeys \/ CallFlattenJson_dp \/ CallFlattenJson_DP

SpecFlatten == InitFlatten /\ [][NextFlatten]_vars

\* C11: check_outermost_keys returns True if the value of every outermost key
\* is a dictionary with exactly one key, and False otherwise: False when some
\* frame's value is not a dictionary, holds no body, or holds two or more.
C11_CheckOutermostKeys ==
    pc = "check_outermost_keys" =>
        (ret <=> \A f \in 1..Len(args.json_data.val) :
                     /\ IsDict(args.json_data.val[f][2])
                     /\ Len(args.json_data.val[f][2].val) = 1)

\* The frames of a file as <<frame number, dictionary of the frame>>: for
\* the first flatten_json the key and the value of each outermost item, for
\* the second each element of the list with its own frame_number.
FramesOf_dp(json_data) ==
    [f \in 1..Len(json_data.val) |-> << JScalar(json_data.val[f][1]), json_data.val[f][2] >>]
FramesOf_DP(json_data) ==
    [f \in 1..Len(json_data.val) |->
        << IF IsDict(json_data.val[f]) THEN FrameNumberOf(json_data.val[f])
           ELSE JScalar("None"),
           json_data.val[f] >>]

AllFramesAreDicts(frames) == \A f \in 1..Len(frames) : IsDict(frames[f][2])

\* the (frame, body) pairs whose body is a dictionary, and the same in
\* input order
BodyPairs(frames) ==
    UNION { { << f, b >> : b \in { b \in 1..Len(frames[f][2].val) :
                                       IsDict(frames[f][2].val[b][2]) } } :
            f \in 1..Len(frames) }
Before(p, q) == p[1] < q[1] \/ (p[1] = q[1] /\ p[2] <= q[2])
OrderedBodyPairs(frames) ==
    LET pairs == BodyPairs(frames)
    IN  [r \in 1..Cardinality(pairs) |->
            CHOOSE p \in pairs : Cardinality({q \in pairs : Before(q, p)}) = r]

Leaves(body) ==
    UNION { LET key == body.val[k][1]
                value == body.val[k][2]
            IN  IF ~IsList(value)
                THEN { [place |-> << k >>, column |-> key, value |-> value] }
                ELSE IF \A i \in 1..Len(value.val) : IsList(value.val[i])
                THEN UNION { { [place |-> << k, i, j >>,
                                column |-> key \o "_" \o ToString(i - 1)
                                               \o "_" \o ToString(j - 1),
                                value |-> value.val[i].val[j]] :
                               j \in 1..Len(value.val[i].val) } :
                             i \in 1..Len(value.val) }
                ELSE { [place |-> << k, i >>,
                        column |-> key \o "_" \o ToString(i - 1),
                        value |-> value.val[i]] : i \in 1..Len(value.val) } :
            k \in 1..Len(body.val) }

\* every record holds the leaves of its body each in its own column, the
\* columns of its frame and body, and nothing else
CopiesFields(records, frames, own) ==
    LET pairs == OrderedBodyPairs(frames)
    IN  /\ Len(records) = Len(pairs)
        /\ \A r \in 1..Len(records) :
               LET frame == frames[pairs[r][1]]
                   body == frame[2].val[pairs[r][2]]
                   leaves == Leaves(body[2])
               IN  /\ \A leaf \in leaves :
                          /\ HasKey(records[r], leaf.column)
                          /\ At(records[r], leaf.column) = leaf.value
                   /\ \A leaf \in leaves, other \in leaves :
                          leaf.column = other.column => leaf.place = other.place
                   /\ \A leaf \in leaves : leaf.column \notin own
                   /\ Keys(records[r]) = own \cup {leaf.column : leaf \in leaves}
                   /\ At(records[r], "frame_number") = frame[1]
                   /\ At(records[r], "inner_key") = JScalar(body[1])

\* C13: both flatten_json functions copy the fields of every body: a scalar
\* field k into column k, element i of a list k into column k_i, element j of
\* sublist i of a list of lists k into column k_i_j; every scalar leaf is in
\* exactly one column of its row with its value, no two leaves share a
\* column, and frame_number and inner_key are those of the row's frame and
\* body.
C13_FlattenCopiesFields ==
    /\ (pc = "flatten_json dp" /\ AllFramesAreDicts(FramesOf_dp(args.json_data))) =>
           /\ ~Raised(ret)
           /\ CopiesFields(ret[2][1], FramesOf_dp(args.json_data),
                           {"frame_number", "inner_key", "body_tracking_error"})
    /\ (pc = "flatten_json DP" /\ AllFramesAreDicts(FramesOf_DP(args.frames))) =>
           /\ ~Raised(ret)
           /\ CopiesFields(ret[2], FramesOf_DP(args.frames), {"frame_number", "inner_key"})

----------------------------------------------------------------------------
(* The capture scripts: recording_and_body_tracking.py,                    *)
(* body_tracking_fused_cameras.py, test_fused_cameras.py and recording.py  *)
(*                                                                         *)
(* args.script names the script that runs.  Main goes step by step through *)
(* its prompts, the calibration, the cameras and its while loop; the SDK   *)
(* calls succeed or fail as the SDK decides.  A SIGINT may arrive between  *)
(* any two steps once the handler is bound, which is before main starts;   *)
(* the handler then runs in main's thread, so main stands still until the  *)
(* handler ends the process.  The handler's calls, writes and prints are   *)
(* appended to log in the order they are made.  A camera is named by its   *)
(* serial, the number of its entry in calibration.json.                    *)

MaxCameras == 2      \* most cameras in calibration.json
MaxIterations == 2   \* most iterations of main's while loop
MaxTracked == 1      \* most bodies in one retrieved sl.Bodies

FusedScripts ==
    {"recording_and_body_tracking.py", "body_tracking_fused_cameras.py",
     "test_fused_cameras.py"}
Scripts == FusedScripts \cup {"recording.py"}

\* os.path.join(folder, name)
PathJoin(dir, name) == IF dir = "" THEN name ELSE dir \o "/" \o name

\* create_context_folder: ./experiments/<date>/<date>_<context>
ContextFolder == "experiments/date/date_context"

\* The body_tracking.json the handler opens: in the experiment folder, and
\* for test_fused_cameras.py in the working directory.
BodyTrackingFile ==
    IF args.script = "test_fused_cameras.py" THEN "body_tracking.json"
    ELSE PathJoin(experiment_folder, "body_tracking.json")

CalibrationFile == PathJoin(experiment_folder, "calibration.json")

\* An entry of calibration.json as ZED360 writes it for a camera.
CalibrationDrawn(n) ==
    [serial \in 1..n |-> [type |-> "USB_SERIAL", configuration |-> ToString(serial)]]

\* A camera object: not opened yet, open, or closed; recording or not.
NewCamera == [state |-> "new", recording |-> FALSE]

\* What a camera retrieves into bodies after a grab, and what the fusion
\* retrieves into it after a successful process(): the camera's bodies carry
\* the camera's own ids (100 and up), the fused ones ids from 0.
CameraBodies(serial, time) ==
    [timestamp |-> time, body_list |-> << [id |-> 100 + serial, keypoint |-> << << serial >> >>,
                                           confidence |-> 1] >>]
FusedBodies(tracked, time) ==
    [timestamp |-> time,
     body_list |-> [b \in 1..tracked |->
                       [id |-> b - 1, keypoint |-> << << b, time >> >>, confidence |-> 1]]]

\* body.keypoint.tolist()
ToList(keypoint) ==
    JList([r \in 1..Len(keypoint) |->
             JList([c \in 1..Len(keypoint[r]) |-> JScalar(ToString(keypoint[r][c]))])])

serialize_body(body, timestamp) ==
    JDict(<< << "id", JScalar(ToString(body.id)) >>,
             << "ts", JScalar(ToString(timestamp)) >>,
             << "keypoint", ToList(body.keypoint) >>,
             << "confidence", JScalar(ToString(body.confidence)) >> >>)

\* [serialize_body(b, bodies.timestamp.get_milliseconds()) for b in bodies.body_list]
SerializedBodies(retrieved) ==
    JList([b \in 1..Len(retrieved.body_list) |->
             serialize_body(retrieved.body_list[b], retrieved.timestamp)])

InitCapture ==
    /\ \E script \in Scripts :
           /\ args = [script |-> script]
           /\ pc = IF script = "test_fused_cameras.py" THEN "calibrated" ELSE "prompt"
    /\ folder = {}
    /\ metadata_json = EmptyDict
    /\ body_tracking_json = <<>>
    /\ highlights_csv = <<>>
    /\ ret = Nothing
    /\ log = <<>>
    /\ experiment_folder = ""
    /\ zcameras = <<>>
    /\ body_json = <<>>
    /\ audio_process = None
    /\ calibration_json = EmptyDict
    /\ senders = <<>>
    /\ cameras = [serial \in 1..MaxCameras |-> NewCamera]
    /\ fusion = <<>>
    /\ bodies = [timestamp |-> 0, body_list |-> <<>>]
    /\ iteration = [n |-> 0, grabbed |-> 0]
    /\ loop_index = 0
    /\ handler = [at |-> "idle", cam |-> 0]
    /\ exit_status = None

\* main runs: the process has not exited and the handler is not running
Running(at) == pc = at /\ exit_status = None /\ handler.at = "idle"

\* exit(1), sys.exit(1)
Exit(status) ==
    /\ pc' = "exited"
    /\ exit_status' = Some(status)

\* context = input(...); experiment_folder = create_context_folder(context).
\* test_fused_cameras.py asks for the context just before it enables the
\* recordings and keeps its folder in a local variable.
Prompt ==
    /\ Running("prompt")
    /\ IF args.script = "test_fused_cameras.py"
       THEN /\ pc' = "record"
            /\ UNCHANGED << experiment_folder, folder >>
       ELSE /\ pc' = "calibration"
            /\ experiment_folder' = ContextFolder
            /\ folder' = folder \cup {ContextFolder}
    /\ UNCHANGED << metadata_json, body_tracking_json, highlights_csv, args, ret, log,
                    zcameras, body_json, audio_process, calibration_json, senders, cameras,
                    fusion, bodies, iteration, loop_index, handler, exit_status >>

\* run_calibration up to subprocess.run: the executable is missing, or ZED360
\* runs and leaves calibration.json for n cameras in the folder, or leaves
\* nothing.
RunZED360 ==
    /\ Running("calibration")
    /\ \/ /\ Exit(1)
          /\ UNCHANGED << folder, calibration_json >>
       \/ /\ pc' = "calibrated"
          /\ UNCHANGED << exit_status, folder, calibration_json >>
       \/ /\ pc' = "calibrated"
          /\ \E n \in 0..MaxCameras :
                 /\ calibration_json' = CalibrationDrawn(n)
                 /\ folder' = folder \cup {CalibrationFile}
          /\ UNCHANGED exit_status
    /\ UNCHANGED << metadata_json, body_tracking_json, highlights_csv, args, ret, log,
                    experiment_folder, zcameras, body_json, audio_process, senders, cameras,
                    fusion, bodies, iteration, loop_index, handler >>

\* The rest of run_calibration: the file must exist and hold a camera.
\* test_fused_cameras.py reads the file named on its command line instead.
ReadCalibration ==
    /\ Running("calibrated")
    /\ IF args.script = "test_fused_cameras.py"
       THEN \E n \in 0..MaxCameras :
                /\ calibration_json' = CalibrationDrawn(n)
                /\ IF n <= 0 THEN Exit(1)
                   ELSE pc' = "open" /\ UNCHANGED exit_status
       ELSE /\ UNCHANGED calibration_json
            /\ IF CalibrationFile \notin folder \/ Len(calibration_json) <= 0
               THEN Exit(1)
               ELSE pc' = "open" /\ UNCHANGED exit_status
    /\ loop_index' = 1
    /\ UNCHANGED << folder, metadata_json, body_tracking_json, highlights_csv, args, ret, log,
                    experiment_folder, zcameras, body_json, audio_process, senders, cameras,
                    fusion, bodies, iteration, handler >>

\* One turn of `for conf in fusion_configurations`: the camera opens and
\* joins senders, or fails and is left out; after the last one main exits if
\* it has no camera.
OpenCamera ==
    /\ Running("open")
    /\ IF loop_index <= Len(calibration_json)
       THEN /\ \/ /\ senders' = Append(senders, loop_index)
                  /\ cameras' = [cameras EXCEPT ![loop_index].state = "open"]
               \/ UNCHANGED << senders, cameras >>
            /\ loop_index' = loop_index + 1
            /\ UNCHANGED << pc, exit_status >>
       ELSE /\ IF Len(senders) < 1 THEN Exit(1)
               ELSE /\ pc' = IF args.script = "test_fused_cameras.py" THEN "prompt"
                             ELSE "record"
                    /\ UNCHANGED exit_status
            /\ loop_index' = 1
            /\ UNCHANGED << senders, cameras >>
    /\ UNCHANGED << folder, metadata_json, body_tracking_json, highlights_csv, args, ret, log,
                    experiment_folder, zcameras, body_json, audio_process, calibration_json,
                    fusion, bodies, iteration, handler >>

\* One turn of `for serial in senders`: the camera joins zcameras, then its
\* recording is enabled or main exits; a fused script also grabs once, and
\* retrieves the camera's bodies if the grab succeeds.
EnableRecording ==
    /\ Running("record")
    /\ IF loop_index <= Len(senders)
       THEN LET serial == senders[loop_index]
            IN  /\ zcameras' = Append(zcameras, serial)
                /\ \/ /\ Exit(1)
                      /\ UNCHANGED << cameras, bodies, loop_index >>
                   \/ /\ cameras' = [cameras EXCEPT ![serial].recording = TRUE]
                      /\ loop_index' = loop_index + 1
                      /\ \/ UNCHANGED bodies
                         \/ /\ args.script \in FusedScripts
                            /\ bodies' = CameraBodies(serial, 0)
                      /\ UNCHANGED << pc, exit_status >>
       ELSE /\ pc' = IF args.script = "recording.py" THEN "audio" ELSE "subscribe"
            /\ UNCHANGED << zcameras, cameras, bodies, loop_index, exit_status >>
    /\ UNCHANGED << folder, metadata_json, body_tracking_json, highlights_csv, args, ret, log,
                    experiment_folder, body_json, audio_process, calibration_json, senders,
                    fusion, iteration, handler >>

\* recording.py: start_audio_recording
start_audio_recording ==
    /\ Running("audio")
    /\ audio_process' = Some("running")
    /\ pc' = "subscribe"
    /\ UNCHANGED << folder, metadata_json, body_tracking_json, highlights_csv, args, ret, log,
                    experiment_folder, zcameras, body_json, calibration_json, senders, cameras,
                    fusion, bodies, iteration, loop_index, handler, exit_status >>

\* The loop of fusion.subscribe: some camera is subscribed and main enters
\* its while loop, or none is and main exits.
Subscribe ==
    /\ Running("subscribe")
    /\ \/ Exit(1) /\ UNCHANGED << iteration, loop_index >>
       \/ /\ pc' = "grab"
          /\ iteration' = [n |-> 1, grabbed |-> 0]
          /\ loop_index' = 1
          /\ UNCHANGED exit_status
    /\ UNCHANGED << folder, metadata_json, body_tracking_json, highlights_csv, args, ret, log,
                    experiment_folder, zcameras, body_json, audio_process, calibration_json,
                    senders, cameras, fusion, bodies, handler >>

\* One turn of `for serial in senders` inside the while loop: the camera
\* grabs a frame or not; a fused script retrieves the camera's bodies after a
\* grab.
Grab ==
    /\ Running("grab")
    /\ iteration.n <= MaxIterations
    /\ IF loop_index <= Len(senders)
       THEN /\ \/ UNCHANGED << iteration, bodies >>
               \/ /\ iteration' = [iteration EXCEPT !.grabbed = @ + 1]
                  /\ bodies' = IF args.script \in FusedScripts
                               THEN CameraBodies(senders[loop_index], iteration.n)
                               ELSE bodies
            /\ loop_index' = loop_index + 1
            /\ UNCHANGED pc
       ELSE /\ pc' = "process"
            /\ UNCHANGED << iteration, bodies, loop_index >>
    /\ UNCHANGED << folder, metadata_json, body_tracking_json, highlights_csv, args, ret, log,
                    experiment_folder, zcameras, body_json, audio_process, calibration_json,
                    senders, cameras, fusion, handler, exit_status >>

\* the while loop starts over
NextIteration ==
    /\ pc' = "grab"
    /\ iteration' = [n |-> iteration.n + 1, grabbed |-> 0]
    /\ loop_index' = 1

\* fusion.process(): it fails, or it succeeds and the fusion holds one more
\* result, of some number of bodies.
Process ==
    /\ Running("process")
    /\ \/ /\ NextIteration
          /\ UNCHANGED fusion
       \/ /\ \E tracked \in 0..MaxTracked :
                 fusion' = Append(fusion, [iteration |-> iteration.n,
                                           grabbed |-> iteration.grabbed,
                                           retrieved |-> FusedBodies(tracked, iteration.n)])
          /\ IF args.script = "recording.py" THEN NextIteration
             ELSE pc' = "append" /\ UNCHANGED << iteration, loop_index >>
    /\ UNCHANGED << folder, metadata_json, body_tracking_json, highlights_csv, args, ret, log,
                    experiment_folder, zcameras, body_json, audio_process, calibration_json,
                    senders, cameras, bodies, handler, exit_status >>

\* appending once for every camera that grabbed in place of once
AppendBodies_per_grab(list, retrieved) ==
    list \o [g \in 1..iteration.grabbed |-> SerializedBodies(retrieved)]
\* body_json.append([serialize_body(b, ...) for b in bodies.body_list])
AppendBodies(list, retrieved) == Append(list, SerializedBodies(retrieved))

\* fusion.retrieve_bodies(bodies, rt), then the append to body_json
RetrieveAndAppend ==
    /\ Running("append")
    /\ bodies' = fusion[Len(fusion)].retrieved
    /\ body_json' = AppendBodies(body_json, bodies')
    /\ NextIteration
    /\ UNCHANGED << folder, metadata_json, body_tracking_json, highlights_csv, args, ret, log,
                    experiment_folder, zcameras, audio_process, calibration_json,
                    senders, cameras, fusion, handler, exit_status >>

\* A SIGINT arrives: the handler starts on top of whatever main was doing.
SIGINT ==
    /\ exit_status = None
    /\ handler.at = "idle"
    /\ handler' = [at |-> "disable_recording", cam |-> 1]
    /\ log' = Append(log, "print: got sigint, shutting cameras")
    /\ UNCHANGED << pc, folder, metadata_json, body_tracking_json, highlights_csv, args, ret,
                    experiment_folder, zcameras, body_json, audio_process, calibration_json,
                    senders, cameras, fusion, bodies, iteration, loop_index, exit_status >>

\* closing the camera first and disabling its recording after
HandlerCalls_close_first(serial) ==
    IF handler.at = "disable_recording" THEN "close: " \o ToString(serial)
    ELSE "disable_recording: " \o ToString(serial)
\* for cam in zcameras: cam.disable_recording(); cam.close()
HandlerCalls(serial) ==
    IF handler.at = "disable_recording" THEN "disable_recording: " \o ToString(serial)
    ELSE "close: " \o ToString(serial)

\* cam.disable_recording()
HandlerDisableRecording ==
    /\ handler.at = "disable_recording"
    /\ handler.cam <= Len(zcameras)
    /\ LET serial == zcameras[handler.cam]
       IN  /\ cameras' = [cameras EXCEPT ![serial].recording = FALSE]
           /\ log' = Append(log, HandlerCalls(serial))
    /\ handler' = [handler EXCEPT !.at = "close"]
    /\ UNCHANGED << pc, folder, metadata_json, body_tracking_json, highlights_csv, args, ret,
                    experiment_folder, zcameras, body_json, audio_process, calibration_json,
                    senders, fusion, bodies, iteration, loop_index, exit_status >>

\* cam.close()
HandlerClose ==
    /\ handler.at = "close"
    /\ LET serial == zcameras[handler.cam]
       IN  /\ cameras' = [cameras EXCEPT ![serial] = [state |-> "closed", recording |-> FALSE]]
           /\ log' = Append(log, HandlerCalls(serial))
    /\ handler' = [at |-> "disable_recording", cam |-> handler.cam + 1]
    /\ UNCHANGED << pc, folder, metadata_json, body_tracking_json, highlights_csv, args, ret,
                    experiment_folder, zcameras, body_json, audio_process, calibration_json,
                    senders, fusion, bodies, iteration, loop_index, exit_status >>

\* json.dump(body_json, outfile)
json_dump(list) == JList(list)

\* The fused scripts, after the loop over zcameras: body_json is dumped into
\* body_tracking.json.
HandlerDump ==
    /\ args.script \in FusedScripts
    /\ handler.at = "disable_recording"
    /\ handler.cam > Len(zcameras)
    /\ body_tracking_json' = json_dump(body_json)
    /\ folder' = folder \cup {BodyTrackingFile}
    /\ log' = log \o << "print: dumping json", "write: " \o BodyTrackingFile >>
    /\ handler' = [handler EXCEPT !.at = "exit"]
    /\ UNCHANGED << pc, metadata_json, highlights_csv, args, ret,
                    experiment_folder, zcameras, body_json, audio_process, calibration_json,
                    senders, cameras, fusion, bodies, iteration, loop_index, exit_status >>

\* recording.py, after the loop over zcameras: stop_audio_recording
stop_audio_recording ==
    /\ args.script = "recording.py"
    /\ handler.at = "disable_recording"
    /\ handler.cam > Len(zcameras)
    /\ IF audio_process # None
       THEN /\ audio_process' = Some("terminated")
            /\ log' = log \o << "terminate: arecord", "print: Audio recording stopped." >>
       ELSE UNCHANGED << audio_process, log >>
    /\ handler' = [handler EXCEPT !.at = "update_calibration"]
    /\ UNCHANGED << pc, folder, metadata_json, body_tracking_json, highlights_csv, args, ret,
                    experiment_folder, zcameras, body_json, calibration_json,
                    senders, cameras, fusion, bodies, iteration, loop_index, exit_status >>

\* The path update_calibration gives a camera: the folder's name is split at
\* its first underscore into timestamp and base name.
ConfigurationPath(serial) ==
    IF experiment_folder = "" THEN "_" \o ToString(serial) \o "_.svo2"
    ELSE PathJoin(experiment_folder, "date_" \o ToString(serial) \o "_context.svo2")

\* recording.py: update_calibration(experiment_folder).  Opening a file that
\* is not there raises FileNotFoundError, which nothing catches: the process
\* ends with a traceback and status 1.
update_calibration ==
    /\ handler.at = "update_calibration"
    /\ IF CalibrationFile \notin folder
       THEN /\ log' = Append(log, "raise: FileNotFoundError")
            /\ handler' = [handler EXCEPT !.at = "raised"]
            /\ Exit(1)
            /\ UNCHANGED calibration_json
       ELSE /\ calibration_json' =
                   [serial \in 1..Len(calibration_json) |->
                       [type |-> "SVO_FILE", configuration |-> ConfigurationPath(serial)]]
            /\ log' = log \o << "write: " \o CalibrationFile,
                                "print: Calibration JSON file updated successfully." >>
            /\ handler' = [handler EXCEPT !.at = "exit"]
            /\ UNCHANGED << pc, exit_status >>
    /\ UNCHANGED << folder, metadata_json, body_tracking_json, highlights_csv, args, ret,
                    experiment_folder, zcameras, body_json, audio_process,
                    senders, cameras, fusion, bodies, iteration, loop_index >>

\* print("exiting"); sys.exit(0)
HandlerExit ==
    /\ handler.at = "exit"
    /\ log' = log \o << "print: exiting", "exit: 0" >>
    /\ handler' = [handler EXCEPT !.at = "done"]
    /\ Exit(0)
    /\ UNCHANGED << folder, metadata_json, body_tracking_json, highlights_csv, args, ret,
                    experiment_folder, zcameras, body_json, audio_process, calibration_json,
                    senders, cameras, fusion, bodies, iteration, loop_index >>

NextCapture ==
    \/ Prompt \/ RunZED360 \/ ReadCalibration \/ OpenCamera \/ EnableRecording
    \/ start_audio_recording \/ Subscribe \/ Grab \/ Process \/ RetrieveAndAppend
    \/ SIGINT \/ HandlerDisableRecording \/ HandlerClose \/ HandlerDump
    \/ stop_audio_recording \/ update_calibration \/ HandlerExit

SpecCapture == InitCapture /\ [][NextCapture]_vars

\* the handler has made this call, write or print / made it before place k
Logged(event) == \E k \in 1..Len(log) : log[k] = event
LoggedBefore(event, k) == \E j \in 1..(k - 1) : log[j] = event

\* the handler has written body_tracking.json
Dumped == Logged("write: " \o BodyTrackingFile)

C15_Order ==
    args.script \in FusedScripts =>
        /\ \A k \in 1..Len(log) : \A serial \in 1..MaxCameras :
               log[k] = "close: " \o ToString(serial) =>
                   LoggedBefore("disable_recording: " \o ToString(serial), k)
        /\ \A k \in 1..Len(log) :
               log[k] = "write: " \o BodyTrackingFile =>
                   \A z \in 1..Len(zcameras) :
                       /\ LoggedBefore("close: " \o ToString(zcameras[z]), k)
                       /\ cameras[zcameras[z]].state = "closed"
        /\ \A k \in 1..Len(log) : log[k] = "exit: 0" => LoggedBefore("write: " \o BodyTrackingFile, k)
        /\ exit_status = Some(0) => Logged("exit: 0")
        /\ Dumped => /\ BodyTrackingFile \in folder
                     /\ body_tracking_json = json_dump(body_json)

\* C15: in the recording-and-body-tracking scripts the handler, for every
\* camera in zcameras, disables the recording before it closes the camera;
\* it writes body_json to body_tracking.json only after all of them are
\* closed, and the process exits with status 0 only after that write; the
\* file holds the entries appended to body_json before the signal, in append
\* order (from the signal on body_json does not change, and the file once
\* written does not change).
C15_HandlerOrder ==
    /\ []C15_Order
    /\ [][/\ handler.at # "idle" => body_json' = body_json
          /\ (args.script \in FusedScripts /\ Dumped) =>
                 body_tracking_json' = body_tracking_json]_vars

\* a fused script interrupted in its loop with two cameras recording and an
\* entry in body_json has run its handler to the end
C15_Witness ==
    /\ args.script = "recording_and_body_tracking.py"
    /\ exit_status = Some(0)
    /\ Len(zcameras) = 2
    /\ Len(body_json) >= 1
    /\ Logged("close: 2")
    /\ body_tracking_json = json_dump(body_json)

C17_Entries ==
    args.script \in FusedScripts =>
        /\ pc \in {"grab", "process"} => Len(body_json) = Len(fusion)
        /\ Len(fusion) - Len(body_json) \in {0, 1}
        /\ \A k \in 1..Len(body_json) : body_json[k] = SerializedBodies(fusion[k].retrieved)
        /\ \A k \in 1..Len(fusion) : \A j \in 1..(k - 1) :
               fusion[j].iteration < fusion[k].iteration
        /\ Dumped =>
               /\ Len(body_tracking_json.val) = Len(body_json)
               /\ \A k \in 1..Len(body_json) :
                      body_tracking_json.val[k] = SerializedBodies(fusion[k].retrieved)

\* C17: in the fused main loops body_json grows by one entry in each
\* iteration whose fusion.process() succeeds and by none when it fails,
\* however many cameras grabbed a frame; entries are never removed, changed
\* or reordered; entry k of the dumped body_tracking.json holds the bodies of
\* the k-th successful fusion step.  (Between iterations body_json has as
\* many entries as process() succeeded; a signal between a success and its
\* append leaves that last result out.)
C17_BodyJsonGrows ==
    /\ []C17_Entries
    /\ [][/\ Len(body_json') \in {Len(body_json), Len(body_json) + 1}
          /\ SubSeq(body_json', 1, Len(body_json)) = body_json]_vars

\* the first iteration's fusion failed and the second's succeeded with a
\* body though neither of two cameras grabbed; the file was then dumped
C17_Witness ==
    /\ args.script \in FusedScripts
    /\ Dumped
    /\ Len(senders) = 2
    /\ Len(fusion) = 1
    /\ fusion[1].iteration = 2
    /\ fusion[1].grabbed = 0
    /\ Len(body_json) = 1
    /\ Len(body_json[1].val) = 1
    /\ At(body_json[1].val[1].val, "ts") = JScalar("2")

\* C16: in recording.py a SIGINT at any point after the handler is bound
\* ends in: recording disabled and each active camera closed, audio
\* recording stopped, calibration.json updated, exit with status 0.
C16_SigintShutsDown ==
    (args.script = "recording.py" /\ handler.at # "idle" /\ pc = "exited") =>
        /\ exit_status = Some(0)
        /\ \A s \in 1..Len(senders) :
               /\ cameras[senders[s]].state = "closed"
               /\ ~cameras[senders[s]].recording
        /\ audio_process # Some("running")
        /\ Logged("write: " \o CalibrationFile)
        /\ \A serial \in 1..Len(calibration_json) : calibration_json[serial].type = "SVO_FILE"

----------------------------------------------------------------------------
(* The post-processing scripts run on a recorded body_tracking.json        *)
(*                                                                         *)
(* The folder holds the body_tracking.json a fused capture script dumped   *)
(* on SIGINT and a well-formed metadata.json; one of label.py,             *)
(* Data Preparation/data_preparation.py and                                *)
(* data_preparation/data_preparation.py is then run on the folder.         *)

\* The lists a capture leaves in body_json: an entry for each successful
\* fusion step, of some number of bodies.
BodyJsonDrawn ==
    UNION { { [k \in 1..n |-> SerializedBodies(FusedBodies(tracked[k], k))] :
              tracked \in [1..n -> 0..MaxTracked] } :
            n \in 0..MaxIterations }

InitPipeline ==
    /\ pc = "start"
    /\ \E list \in BodyJsonDrawn :
           /\ body_json = list
           /\ body_tracking_json = json_dump(list)
    /\ folder = {"body_tracking.json", "metadata.json"}
    /\ \E rate \in RatesDrawn, frames \in {<<>>, << 0, 1 >>} :
           metadata_json = [average_frame_rate |-> rate, seconds |-> <<>>, frames |-> frames]
    /\ highlights_csv = <<>>
    /\ args = Nothing
    /\ ret = Nothing
    /\ log = <<>>
    /\ experiment_folder = ""
    /\ zcameras = <<>>
    /\ audio_process = None
    /\ calibration_json = EmptyDict
    /\ senders = <<>>
    /\ cameras = <<>>
    /\ fusion = <<>>
    /\ bodies = <<>>
    /\ iteration = 0
    /\ loop_index = 0
    /\ handler = [at |-> "done", cam |-> 0]
    /\ exit_status = Some(0)

\* value.items(): a list has no such method
items(value) == IF IsDict(value) THEN Ok(value.val) ELSE Raise("AttributeError")

\* int(frame_number_str) for the text of a frame number below 100
IntOfText(text) == CHOOSE n \in 0..99 : ToString(n) = text

\* label.py: label_confused on what json.load gave
label_confused_loaded(body_tracking, intervals) ==
    LET frames == items(body_tracking)
    IN  IF Raised(frames) THEN frames
        ELSE Ok(JDict([f \in 1..Len(frames[2]) |->
                 LET frame_data == frames[2][f][2]
                     confused_value == JScalar(JsonBool(IntOfText(frames[2][f][1]) \in intervals))
                 IN  << frames[2][f][1],
                        JDict([b \in 1..Len(frame_data.val) |->
                                 << frame_data.val[b][1],
                                    JDict(OrderedDict(<< << "confused", confused_value >> >>
                                                      \o frame_data.val[b][2].val)) >>]) >>]))

\* label.py: main
Main_label_loaded ==
    /\ pc = "start"
    /\ args' = [metadata |-> metadata_json, body_tracking |-> body_tracking_json]
    /\ IF "frames" \notin DOMAIN metadata_json
       THEN /\ pc' = "raised"
            /\ log' = << "raise: KeyError" >>
            /\ UNCHANGED body_tracking_json
       ELSE IF Len(metadata_json["frames"]) % 2 # 0
       THEN /\ pc' = "raised"
            /\ log' = << "raise: IndexError" >>
            /\ UNCHANGED body_tracking_json
       ELSE LET updated_body_tracking ==
                    label_confused_loaded(body_tracking_json,
                                          extract_intervals(metadata_json["frames"]))
            IN  IF Raised(updated_body_tracking)
                THEN /\ pc' = "raised"
                     /\ log' = << "raise: " \o updated_body_tracking[2] >>
                     /\ UNCHANGED body_tracking_json
                ELSE /\ pc' = "done"
                     /\ body_tracking_json' = updated_body_tracking[2]
                     /\ log' = << "write: body_tracking.json" >>
    /\ UNCHANGED << folder, metadata_json, highlights_csv, ret >>
    /\ UNCHANGED captureVars

\* Data Preparation/data_preparation.py: label_body_tracking.  A frame that
\* is a list takes no string index; neither does the key of a dictionary.
RECURSIVE label_body_tracking_from(_, _, _)
label_body_tracking_from(body_data, f, average_frame_rate) ==
    IF f > Len(body_data) THEN Ok(body_data)
    ELSE LET frame == body_data[f]
         IN  IF ~IsDict(frame) THEN Raise("TypeError")
             ELSE IF ~HasKey(frame.val, "frame_number") THEN Raise("KeyError")
             ELSE LET frame_number == IntOfText(At(frame.val, "frame_number").val[1])
                      label == IF frame_number * Den < average_frame_rate THEN "1" ELSE "0"
                  IN  label_body_tracking_from(
                          [body_data EXCEPT ![f] = JDict(DictSet(frame.val, "label",
                                                                  JScalar(label)))],
                          f + 1, average_frame_rate)

label_body_tracking(body_data, average_frame_rate) ==
    IF IsDict(body_data)
    THEN IF body_data.val = <<>> THEN Ok(body_data) ELSE Raise("TypeError")
    ELSE LET labelled == label_body_tracking_from(body_data.val, 1, average_frame_rate)
         IN  IF Raised(labelled) THEN labelled ELSE Ok(JList(labelled[2]))

\* Data Preparation/data_preparation.py: main
Main_DP ==
    /\ pc = "start"
    /\ args' = [metadata |-> metadata_json, body_tracking |-> body_tracking_json]
    /\ IF GetOpt(metadata_json, "average_frame_rate") = None
       THEN /\ pc' = "DP returned"
            /\ log' = << "print: Average frame rate not found in metadata." >>
            /\ UNCHANGED body_tracking_json
       ELSE LET average_frame_rate == metadata_json["average_frame_rate"]
                labelled == label_body_tracking(body_tracking_json, average_frame_rate)
            IN  IF Raised(labelled)
                THEN /\ pc' = "DP raised"
                     /\ log' = << "write: metadata.json", "raise: " \o labelled[2] >>
                     /\ UNCHANGED body_tracking_json
                ELSE LET flattened == flatten_json_DP(labelled[2])
                     IN  /\ body_tracking_json' = labelled[2]
                         /\ IF Raised(flattened)
                            THEN /\ pc' = "DP raised"
                                 /\ log' = << "write: metadata.json",
                                              "write: body_tracking.json",
                                              "raise: " \o flattened[2] >>
                            ELSE /\ pc' = "DP done"
                                 /\ log' = << "write: metadata.json",
                                              "write: body_tracking.json", "write: csv" >>
    /\ UNCHANGED << folder, metadata_json, highlights_csv, ret >>
    /\ UNCHANGED captureVars

NextPipeline == Main_label_loaded \/ Main_DP \/ Main_dp

SpecPipeline == InitPipeline /\ [][NextPipeline]_vars

\* every recorded frame carries a label: each of its bodies a 'confused'
\* field, or the frame itself a 'label'
FrameLabelled(frame) ==
    \/ IsDict(frame) /\ HasKey(frame.val, "label")
    \/ /\ ~IsDict(frame)
       /\ \A b \in 1..Len(frame.val) :
              IsDict(frame.val[b]) /\ HasKey(frame.val[b].val, "confused")

\* C14: the body_tracking.json the capture scripts write (a list with one
\* entry per processed frame, each a list of body records) is in the shape
\* the post-processing scripts read: label.py main and the main of either
\* data_preparation script run on it without error and leave every recorded
\* frame with a label.
C14_RecordedFileIsProcessed ==
    pc # "start" =>
        /\ pc \in {"done", "DP done", "main done"}
        /\ Len(body_tracking_json.val) = Len(body_json)
        /\ \A f \in 1..Len(body_tracking_json.val) : FrameLabelled(body_tracking_json.val[f])

====
